---------------------------- MODULE Spec2Model ----------------------------
(***************************************************************************)
(* State-machine model of the street-scene demo:                           *)
(*   - src/src/Scene.tsx : Car (key handlers, useFrame kinematics tick)    *)
(*   - src/src/App.tsx   : App (blueCarPosition state, Minimap props)      *)
(*   - src/unnamed/part_000 : Minimap (getDistances)                       *)
(*                                                                         *)
(* Numbers.  The program computes in IEEE doubles; the model computes in   *)
(* signed decimal fixed point with FP units per 1.0 (resolution 0.0001).   *)
(* Products are truncated toward zero.  Every quantity the code derives    *)
(* by arithmetic is derived here by the same operations in the same order. *)
(*                                                                         *)
(* React.  A state hook's variable (carState, keys, blueCarPosition) holds *)
(* the value of the hook including the updates already handed to its       *)
(* setter.  What a component function captured at its last render is kept  *)
(* separately: `closure` is the carState captured by the useFrame callback *)
(* of Car, `carPositions`/`report` are what Minimap last received and      *)
(* drew.  Re-renders are steps of their own.                               *)
(***************************************************************************)
EXTENDS Integers, Sequences, FiniteSets

VARIABLES
    carState,         \* Car: useState carState of the movable car
    keys,             \* Car: useState keys
    closure,          \* Car: the carState captured by the current useFrame callback
    blueCarPosition,  \* App: useState blueCarPosition
    carPositions,     \* Minimap: prop carPositions of its last render
    report,           \* Minimap: getDistances(car) of each car, as last drawn
    frame,            \* the latest useFrame callback: its delta, the keys and
                      \* carState it read, the steering increment it added
    ticks,            \* number of useFrame callbacks run so far
    event             \* the latest KeyboardEvent dispatched to the window
                      \* listeners and the keys it found (kept in SpecKeys)

vars == <<carState, keys, closure, blueCarPosition, carPositions, report,
          frame, ticks, event>>

---------------------------------------------------------------------------
(* Fixed-point arithmetic *)

FP == 10^4

Abs(a) == IF a < 0 THEN -a ELSE a

Sgn(a) == IF a < 0 THEN -1 ELSE 1

Min(a, b) == IF a < b THEN a ELSE b

Max(a, b) == IF a > b THEN a ELSE b

\* a * b on fixed-point operands, truncated toward zero.  The product is
\* split so that no intermediate exceeds 32-bit integers.
Mul(a, b) ==
    LET A  == Abs(a)
        B  == Abs(b)
        Ah == A \div FP
        Al == A % FP
        Bh == B \div FP
        Bl == B % FP
    IN  (Sgn(a) * Sgn(b)) *
        (Ah * Bh * FP + Ah * Bl + Al * Bh + (Al * Bl) \div FP)

---------------------------------------------------------------------------
(* Constants of Scene.tsx *)

MOVEMENT_SPEED == 2 * FP

TURN_SPEED == (3 * FP) \div 2

MAX_SPEED == 8 * FP

BRAKE_POWER == (85 * FP) \div 100

ACCELERATION == (8 * FP) \div 10

\* the literals of the useFrame callback
DECAY == (95 * FP) \div 100

LOW_SPEED == FP \div 10

LOW_SPEED_FRICTION == (9 * FP) \div 10

STEERING_FLOOR == FP \div 2

CENTERING_BASE == (9 * FP) \div 10

CENTERING_SLOPE == FP \div 10

---------------------------------------------------------------------------
(* new Vector3(0,0,1).applyAxisAngle(new Vector3(0,1,0), angle): the unit  *)
(* vector (sin angle, 0, cos angle).  Sine and cosine are computed by      *)
(* range reduction and a Taylor polynomial; at angle 0 they are exactly    *)
(* 0 and 1, as in the program.                                             *)

PI == 31416

TWO_PI == 62832

HALF_PI == 15708

\* sine of x for 0 <= x <= HALF_PI
SinQ(x) ==
    LET x2 == Mul(x, x)
        x3 == Mul(x2, x)
        x5 == Mul(x3, x2)
        x7 == Mul(x5, x2)
    IN  Min(FP, x - x3 \div 6 + x5 \div 120 - x7 \div 5040)

\* cosine of x for 0 <= x <= HALF_PI
CosQ(x) ==
    LET x2 == Mul(x, x)
        x4 == Mul(x2, x2)
        x6 == Mul(x4, x2)
        x8 == Mul(x6, x2)
    IN  Max(0, FP - x2 \div 2 + x4 \div 24 - x6 \div 720 + x8 \div 40320)

Sin(angle) ==
    LET r == angle % TWO_PI
    IN  IF r <= HALF_PI THEN SinQ(r)
        ELSE IF r <= PI THEN SinQ(PI - r)
        ELSE IF r <= PI + HALF_PI THEN -SinQ(r - PI)
        ELSE -SinQ(TWO_PI - r)

Cos(angle) ==
    LET r == angle % TWO_PI
    IN  IF r <= HALF_PI THEN CosQ(r)
        ELSE IF r <= PI THEN -CosQ(PI - r)
        ELSE IF r <= PI + HALF_PI THEN -CosQ(r - PI)
        ELSE CosQ(TWO_PI - r)

\* applyAxisAngle with the components exchanged
applyAxisAngleSwapped(angle) == [x |-> Cos(angle), z |-> Sin(angle)]

\* Scene.tsx 108
applyAxisAngle(angle) == [x |-> Sin(angle), z |-> Cos(angle)]

---------------------------------------------------------------------------
(* Car: the useFrame callback (Scene.tsx 70-137), one function per line    *)
(* group of the source.  st is the captured carState, k the keys, dt the   *)
(* delta of the frame.                                                     *)

\* newAcceleration with the decay applied while W or S is held instead
newAccelerationInverted(st, k, dt) ==
    LET a0 == st.acceleration
        a1 == IF k.w THEN a0 + Mul(ACCELERATION, dt) ELSE a0
        a2 == IF k.s THEN a1 - Mul(ACCELERATION, dt) ELSE a1
    IN  IF k.w \/ k.s THEN Mul(a2, DECAY) ELSE a2

\* 74-78
newAcceleration(st, k, dt) ==
    LET a0 == st.acceleration
        a1 == IF k.w THEN a0 + Mul(ACCELERATION, dt) ELSE a0
        a2 == IF k.s THEN a1 - Mul(ACCELERATION, dt) ELSE a1
    IN  IF ~k.w /\ ~k.s THEN Mul(a2, DECAY) ELSE a2

\* 87
brakedAcceleration(st, k, dt) ==
    IF k.space THEN Mul(newAcceleration(st, k, dt), BRAKE_POWER)
    ELSE newAcceleration(st, k, dt)

\* clampVelocity with the upper limit left out
clampVelocityNoCeiling(v) == Max(v, -(MAX_SPEED \div 2))

\* 91
clampVelocity(v) == Max(Min(v, MAX_SPEED), -(MAX_SPEED \div 2))

\* 94-96
lowSpeedFriction(v) ==
    IF Abs(v) < LOW_SPEED THEN Mul(v, LOW_SPEED_FRICTION) ELSE v

\* 81-96
newVelocity(st, k, dt) ==
    LET v0 == st.velocity + newAcceleration(st, k, dt)
        v1 == IF k.space THEN Mul(v0, BRAKE_POWER) ELSE v0
    IN  lowSpeedFriction(clampVelocity(v1))

\* |v| / MAX_SPEED
speedRatio(v) == (Abs(v) * FP) \div MAX_SPEED

\* steeringPower without its floor
steeringPowerNoFloor(v) == FP - speedRatio(v)

\* 100
steeringPower(v) == Max(STEERING_FLOOR, FP - speedRatio(v))

\* 101-102: what the A/D keys add to the steering in this frame
steeringStep(v, dt) == Mul(Mul(TURN_SPEED, dt), steeringPower(v))

steeringInput(k, v, dt) ==
    (IF k.a THEN steeringStep(v, dt) ELSE 0)
    - (IF k.d THEN steeringStep(v, dt) ELSE 0)

\* 104
centering(v) == CENTERING_BASE - Mul(speedRatio(v), CENTERING_SLOPE)

\* 99-104
newSteering(st, k, dt) ==
    LET v == newVelocity(st, k, dt)
    IN  Mul(st.steering + steeringInput(k, v, dt), centering(v))

\* 107-109
newPosition(st, k, dt) ==
    LET direction == applyAxisAngle(st.rotation)
        scalar    == Mul(Mul(newVelocity(st, k, dt), dt), MOVEMENT_SPEED)
    IN  [x |-> st.position.x + Mul(direction.x, scalar),
         z |-> st.position.z + Mul(direction.z, scalar)]

\* newRotation without the velocity factor
newRotationNoVelocity(st, k, dt) ==
    st.rotation + Mul(newSteering(st, k, dt), dt)

\* 112
newRotation(st, k, dt) ==
    st.rotation + Mul(Mul(newSteering(st, k, dt), newVelocity(st, k, dt)), dt)

\* 113-119: the object handed to setCarState
advance(st, k, dt) ==
    [position     |-> newPosition(st, k, dt),
     rotation     |-> newRotation(st, k, dt),
     velocity     |-> newVelocity(st, k, dt),
     steering     |-> newSteering(st, k, dt),
     acceleration |-> brakedAcceleration(st, k, dt)]

---------------------------------------------------------------------------
(* App (App.tsx 9-47) *)

CURB_POSITIONS == [left |-> -((425 * FP) \div 100), right |-> (425 * FP) \div 100]

STATIC_CAR_POSITIONS ==
    << [x |-> 3 * FP, z |-> -(8 * FP), color |-> "red"],
       [x |-> 3 * FP, z |-> 8 * FP, color |-> "yellow"] >>

\* blueCarPosition seeded away from the movable car's start
InitBlueCarPositionOff == [x |-> FP, z |-> 0]

\* 17: useState({ x: 0, z: 0 })
InitBlueCarPosition == [x |-> 0, z |-> 0]

\* 41-44: the carPositions prop App hands to Minimap
AppCarPositions(blue) ==
    STATIC_CAR_POSITIONS \o << [x |-> blue.x, z |-> blue.z, color |-> "blue"] >>

---------------------------------------------------------------------------
(* Minimap (part_000 19-34) *)

\* Number.prototype.toFixed(2) of a non-negative number: the decimal string
\* with two fraction digits, kept as the count of hundredths it denotes.
toFixed2(v) == (v + FP \div 200) \div (FP \div 100)

\* the value toFixed2's result denotes, in fixed point
fromFixed2(h) == h * (FP \div 100)

\* the largest h with h * (h - 1) < y, for lo <= h <= hi
RECURSIVE SqrtIter(_, _, _)
SqrtIter(y, lo, hi) ==
    IF lo >= hi THEN lo
    ELSE LET mid == (lo + hi + 1) \div 2
         IN  IF mid * (mid - 1) < y THEN SqrtIter(y, mid, hi)
             ELSE SqrtIter(y, lo, mid - 1)

\* Math.sqrt(y).toFixed(2) for a fixed-point y >= 0: the number of
\* hundredths nearest to the square root.  With y counted in units of
\* 1/FP = 1/100^2, sqrt(y / 100^2) = sqrt(y) / 100, so the result is the
\* integer nearest to the square root of the count y.
sqrtToFixed2(y) == IF y = 0 THEN 0 ELSE SqrtIter(y, 1, 46340)

\* curbDist measured to the left curb
curbDistLeft(car, curbPositions) == toFixed2(Abs(curbPositions.left - car.x))

\* 20
curbDist(car, curbPositions) == toFixed2(Abs(curbPositions.right - car.x))

\* 27
distance(car, other) ==
    sqrtToFixed2(Mul(car.x - other.x, car.x - other.x)
                 + Mul(car.z - other.z, car.z - other.z))

\* the filter keeping every car
isOtherAlways(other, car) == TRUE

\* 24: the filter's predicate
isOther(other, car) == other.color # car.color

\* 23-28
otherCars(car, positions) ==
    LET others == SelectSeq(positions, LAMBDA other : isOther(other, car))
    IN  [i \in 1..Len(others) |->
            [color |-> others[i].color, distance |-> distance(car, others[i])]]

\* 19-34
getDistances(car, positions, curbPositions) ==
    [curbDist  |-> curbDist(car, curbPositions),
     otherCars |-> otherCars(car, positions)]

\* 78-79: one getDistances per car, in the order of carPositions
MinimapReport(positions, curbPositions) ==
    [i \in 1..Len(positions) |-> getDistances(positions[i], positions, curbPositions)]

---------------------------------------------------------------------------
(* The program as a state machine *)

\* bound: frames run in one behaviour of Spec
MaxTicks == 2

\* 1/60 s, to the model's resolution
DtFrame == (FP + 30) \div 60

\* frame deltas the render loop hands to useFrame: a repeated timestamp (0),
\* one frame at 60 Hz (1/60 s) and a stalled frame (5 s)
Deltas == {0, DtFrame, 5 * FP}

\* KeyboardEvent.key values: the five the handlers recognise and one other
KeyValues == {"w", "s", "a", "d", " ", "x"}

\* Scene.tsx 48, 55: ['w','s','a','d',' '].includes(e.key)
Recognized(key) == key \in {"w", "s", "a", "d", " "}

\* Scene.tsx 49, 56: e.key === ' ' ? 'space' : e.key
KeyName(key) == IF key = " " THEN "space" ELSE key

\* Scene.tsx 26-32 with the props of the movable car (246-251)
InitCarState ==
    [position |-> [x |-> 0, z |-> 0], rotation |-> 0, velocity |-> 0,
     steering |-> 0, acceleration |-> 0]

\* Scene.tsx 35-41
InitKeys == [w |-> FALSE, s |-> FALSE, a |-> FALSE, d |-> FALSE, space |-> FALSE]

\* no KeyboardEvent has been dispatched
NoEvent == [type |-> "none", key |-> "", before |-> InitKeys]

\* the state once App, Scene, the cars and Minimap are mounted.  The two
\* static cars (isMovable false) return at Scene.tsx 45 and 71: they have
\* no handler and no frame step, and appear only as STATIC_CAR_POSITIONS.
Init ==
    /\ carState = InitCarState
    /\ keys = InitKeys
    /\ closure = InitCarState
    /\ blueCarPosition = InitBlueCarPosition
    /\ carPositions = AppCarPositions(InitBlueCarPosition)
    /\ report = MinimapReport(AppCarPositions(InitBlueCarPosition), CURB_POSITIONS)
    /\ frame = [delta |-> 0, keys |-> InitKeys, state |-> InitCarState,
                steeringInput |-> 0]
    /\ ticks = 0
    /\ event = NoEvent

\* keydown inverting the flag instead of setting it
handleKeyDownToggle(key) ==
    /\ keys' = IF Recognized(key) THEN [keys EXCEPT ![KeyName(key)] = ~@] ELSE keys
    /\ UNCHANGED <<carState, closure, blueCarPosition, carPositions, report,
                   frame, ticks>>

\* Scene.tsx 47-52.  The keydown listener runs in a discrete event, whose
\* state update React renders before the next frame: the frame callback
\* always reads the current keys.
handleKeyDown(key) ==
    /\ keys' = IF Recognized(key) THEN [keys EXCEPT ![KeyName(key)] = TRUE] ELSE keys
    /\ UNCHANGED <<carState, closure, blueCarPosition, carPositions, report,
                   frame, ticks>>

\* Scene.tsx 54-58
handleKeyUp(key) ==
    /\ keys' = IF Recognized(key) THEN [keys EXCEPT ![KeyName(key)] = FALSE] ELSE keys
    /\ UNCHANGED <<carState, closure, blueCarPosition, carPositions, report,
                   frame, ticks>>

\* published with the position the callback started from
publishedStale(st, k, dt) == [x |-> st.position.x, z |-> st.position.z]

\* Scene.tsx 126-128: the object handed to onPositionUpdate
published(st, k, dt) ==
    [x |-> newPosition(st, k, dt).x, z |-> newPosition(st, k, dt).z]

\* Scene.tsx 70-137 for the movable car (isMovable, groupRef.current set):
\* the callback computes from the carState it captured, hands the new state
\* to setCarState and the new position to onPositionUpdate, which is
\* App's setBlueCarPosition (App.tsx 30).
useFrame(dt) ==
    /\ carState' = advance(closure, keys, dt)
    /\ blueCarPosition' = published(closure, keys, dt)
    /\ frame' = [delta |-> dt, keys |-> keys, state |-> closure,
                 steeringInput |->
                     steeringInput(keys, newVelocity(closure, keys, dt), dt)]
    /\ ticks' = ticks + 1
    /\ UNCHANGED <<keys, closure, carPositions, report, event>>

\* Car renders again after setCarState: the next useFrame callback
\* captures the stored carState (Scene.tsx 23-32, 70).
CarRender ==
    /\ closure # carState
    /\ closure' = carState
    /\ UNCHANGED <<carState, keys, blueCarPosition, carPositions, report,
                   frame, ticks, event>>

\* Minimap renders with the given props (part_000 9, 78-79)
MinimapRender(positions) ==
    /\ carPositions' = positions
    /\ report' = MinimapReport(positions, CURB_POSITIONS)
    /\ UNCHANGED <<carState, keys, closure, blueCarPosition, frame, ticks,
                   event>>

\* App renders again after setBlueCarPosition (App.tsx 17, 40-47)
AppRender ==
    /\ carPositions # AppCarPositions(blueCarPosition)
    /\ MinimapRender(AppCarPositions(blueCarPosition))

KeyDown == \E key \in KeyValues : handleKeyDown(key) /\ UNCHANGED event

KeyUp == \E key \in KeyValues : handleKeyUp(key) /\ UNCHANGED event

Frame == ticks < MaxTicks /\ \E dt \in Deltas : useFrame(dt)

Next == KeyDown \/ KeyUp \/ Frame \/ CarRender \/ AppRender

Spec == Init /\ [][Next]_vars

---------------------------------------------------------------------------
(* SpecDrive: the straight-line scenario.  W is pressed and held, nothing  *)
(* else is ever pressed, and every frame has delta = 1/60 s.               *)

\* bound: frames run in one behaviour of SpecDrive
MaxDriveTicks == 60

OnlyAccelerate == [InitKeys EXCEPT !.w = TRUE]

DrivePress == keys = InitKeys /\ handleKeyDown("w") /\ UNCHANGED event

DriveFrame == keys = OnlyAccelerate /\ ticks < MaxDriveTicks /\ useFrame(DtFrame)

NextDrive == DrivePress \/ DriveFrame \/ CarRender

SpecDrive == Init /\ [][NextDrive]_vars

---------------------------------------------------------------------------
(* SpecKeys: the keyboard alone.  The window dispatches keydown and keyup  *)
(* events of any key, in any order (a held key repeats its keydown), to    *)
(* the listeners of Scene.tsx 60-61; `event` keeps the latest one and the  *)
(* keys the listener found.                                                *)

dispatchKeyDown(key) ==
    /\ handleKeyDown(key)
    /\ event' = [type |-> "keydown", key |-> key, before |-> keys]

dispatchKeyUp(key) ==
    /\ handleKeyUp(key)
    /\ event' = [type |-> "keyup", key |-> key, before |-> keys]

KeyDownEvent == \E key \in KeyValues : dispatchKeyDown(key)

KeyUpEvent == \E key \in KeyValues : dispatchKeyUp(key)

NextKeys == KeyDownEvent \/ KeyUpEvent

SpecKeys == Init /\ [][NextKeys]_vars

---------------------------------------------------------------------------
(* SpecMinimap: getDistances on any world of up to MaxCars vehicles with   *)
(* pairwise distinct colours.  The props are drawn from a bounded set; the *)
(* one action is Minimap's render of them.                                 *)

\* bound: vehicles in a world
MaxCars == 3

Colors == {"red", "yellow", "blue", "green"}

\* x: the blue car's start, the static cars' lane, a value with four decimals
CoordsX == {0, 3 * FP, 30049}

CoordsZ == {-(8 * FP), 8 * FP}

Vehicles == [x : CoordsX, z : CoordsZ, color : Colors]

DistinctColors(positions) ==
    \A i, j \in 1..Len(positions) : i # j => positions[i].color # positions[j].color

Worlds ==
    UNION { {w \in [1..n -> Vehicles] : DistinctColors(w)} : n \in 1..MaxCars }

InitMinimap ==
    /\ carState = InitCarState
    /\ keys = InitKeys
    /\ closure = InitCarState
    /\ blueCarPosition = InitBlueCarPosition
    /\ carPositions \in Worlds
    /\ report = << >>
    /\ frame = [delta |-> 0, keys |-> InitKeys, state |-> InitCarState,
                steeringInput |-> 0]
    /\ ticks = 0
    /\ event = NoEvent

NextMinimap == report = << >> /\ MinimapRender(carPositions)

SpecMinimap == InitMinimap /\ [][NextMinimap]_vars

---------------------------------------------------------------------------
(* Properties *)

\* a frame has run with a positive delta
FramePositive == ticks > 0 /\ frame.delta > 0

\* the (x, z) of a carState's position
GroundPosition(st) == [x |-> st.position.x, z |-> st.position.z]

\* C1: after every frame, for all keys and deltas, the stored velocity lies
\* in [-MAX_SPEED * 0.5, MAX_SPEED].
C1_VelocityBounded ==
    /\ -(MAX_SPEED \div 2) <= carState.velocity
    /\ carState.velocity <= MAX_SPEED

\* C1 witness: a frame whose velocity before the clamp was above MAX_SPEED
C1_Witness ==
    /\ FramePositive
    /\ ~frame.keys.space
    /\ frame.state.velocity
         + newAcceleration(frame.state, frame.keys, frame.delta) > MAX_SPEED
    /\ carState.velocity = MAX_SPEED

\* C2 (the claim as stated): a frame with delta <= 0 leaves the vehicle
\* state as it was handed in.
C2_InvalidTimestepRejected ==
    (ticks > 0 /\ frame.delta <= 0) => carState = frame.state

\* C3 (the claim as stated): a frame with no key held and delta > 0 never
\* increases |velocity| nor |steering|.
C3_NoInputContractive ==
    (FramePositive /\ frame.keys = InitKeys) =>
        /\ Abs(carState.velocity) <= Abs(frame.state.velocity)
        /\ Abs(carState.steering) <= Abs(frame.state.steering)

\* C3 (amended): a frame with no key held and delta > 0 leaves |steering|
\* at most 0.9 times and |acceleration| at most 0.95 times what it was,
\* and does not increase |velocity| when the acceleration carried in is
\* zero.
C3_NoInputDecay ==
    (FramePositive /\ frame.keys = InitKeys) =>
        /\ Abs(carState.steering) <= Mul(Abs(frame.state.steering), CENTERING_BASE)
        /\ Abs(carState.acceleration) <= Mul(Abs(frame.state.acceleration), DECAY)
        /\ frame.state.acceleration = 0 =>
               Abs(carState.velocity) <= Abs(frame.state.velocity)

\* C3 witness: a no-key frame that started with steering and acceleration
\* and ended faster than it started
C3_Witness ==
    /\ FramePositive
    /\ frame.keys = InitKeys
    /\ frame.state.steering # 0
    /\ frame.state.acceleration # 0
    /\ Abs(carState.velocity) > Abs(frame.state.velocity)

\* C4 (the claim as stated): from a state with velocity 0, a frame with A
\* held and delta > 0 leaves the rotation unchanged.
C4_StationaryNoTurn ==
    (FramePositive /\ frame.keys.a /\ frame.state.velocity = 0) =>
        carState.rotation = frame.state.rotation

\* C4 (amended): from a state with velocity 0 and acceleration 0, a frame
\* with A held, neither W nor S held and delta > 0 leaves the rotation
\* unchanged.
C4_AtRestNoTurn ==
    (/\ FramePositive
     /\ frame.keys.a /\ ~frame.keys.w /\ ~frame.keys.s
     /\ frame.state.velocity = 0 /\ frame.state.acceleration = 0) =>
        carState.rotation = frame.state.rotation

\* C4 witness: such a frame, which did turn the steering
C4_Witness ==
    /\ FramePositive
    /\ frame.keys.a /\ ~frame.keys.w /\ ~frame.keys.s
    /\ frame.state.velocity = 0 /\ frame.state.acceleration = 0
    /\ carState.steering # 0

\* C5: with only W held, after any number of frames at 1/60 s from the
\* initial state, x is exactly 0, z is positive and the rotation is 0.
C5_StraightLine ==
    ticks > 0 =>
        /\ carState.position.x = 0
        /\ carState.position.z > 0
        /\ carState.rotation = 0

\* C5 witness: the car after MaxDriveTicks frames, more than 1.0 ahead
C5_Witness ==
    /\ ticks = MaxDriveTicks
    /\ frame.keys = OnlyAccelerate
    /\ carState.position.z > FP

\* the place of car j in the otherCars list of car i
EntryIndex(i, j) == IF j < i THEN j ELSE j - 1

\* C6: for N cars with distinct colours every car's list has N-1 entries,
\* in the order of carPositions without the car itself, and the distance
\* listed for B under A equals the one listed for A under B.
C6_PairwiseDistances ==
    report # << >> =>
        LET N == Len(carPositions)
        IN  /\ Len(report) = N
            /\ \A i \in 1..N :
                 /\ Len(report[i].otherCars) = N - 1
                 /\ \A j \in 1..N : j # i =>
                      /\ report[i].otherCars[EntryIndex(i, j)].color
                           = carPositions[j].color
                      /\ report[i].otherCars[EntryIndex(i, j)].distance
                           = report[j].otherCars[EntryIndex(j, i)].distance

\* C6 witness: three cars drawn with three different distances
C6_Witness ==
    /\ Len(report) = 3
    /\ report[1].otherCars[1].distance # report[1].otherCars[2].distance
    /\ report[1].otherCars[1].distance # report[2].otherCars[2].distance
    /\ report[1].otherCars[2].distance # report[2].otherCars[2].distance
    /\ report[1].otherCars[1].distance > 0

\* C7 (the claim as stated): curbDist equals |right curb - x|.
C7_CurbDistExact ==
    \A i \in 1..Len(report) :
        fromFixed2(report[i].curbDist) = Abs(CURB_POSITIONS.right - carPositions[i].x)

\* C7 (amended): curbDist is |right curb - x| rounded to two decimals, it
\* is the same for cars with the same x whatever their z, and it is 1.25
\* for a car at x = 3.
C7_CurbDistRounded ==
    \A i \in 1..Len(report) :
        /\ Abs(fromFixed2(report[i].curbDist)
                 - Abs(CURB_POSITIONS.right - carPositions[i].x)) <= FP \div 200
        /\ \A j \in 1..Len(report) :
               carPositions[i].x = carPositions[j].x =>
                   report[i].curbDist = report[j].curbDist
        /\ carPositions[i].x = 3 * FP => report[i].curbDist = 125

\* C7 witness: cars at (3,-8) and (3,8), both drawn 1.25 from the curb
C7_Witness ==
    \E i, j \in 1..Len(report) :
        /\ carPositions[i].x = 3 * FP /\ carPositions[i].z = -(8 * FP)
        /\ carPositions[j].x = 3 * FP /\ carPositions[j].z = 8 * FP
        /\ report[i].curbDist = 125
        /\ report[j].curbDist = 125

\* C8: with one steering key held, the steering increment of a frame that
\* ends at velocity MAX_SPEED is exactly half the increment the same delta
\* gives at velocity 0, which is TURN_SPEED * delta.
C8_SteeringHalved ==
    (FramePositive /\ frame.keys.a # frame.keys.d) =>
        /\ carState.velocity = MAX_SPEED =>
               2 * Abs(frame.steeringInput) = steeringStep(0, frame.delta)
        /\ carState.velocity = 0 =>
               Abs(frame.steeringInput) = Mul(TURN_SPEED, frame.delta)

\* C8 witness: a steering frame that ended at MAX_SPEED
C8_Witness ==
    /\ FramePositive
    /\ frame.keys.a # frame.keys.d
    /\ carState.velocity = MAX_SPEED
    /\ frame.steeringInput # 0

\* a value is a ground position
IsPosition(p) == p \in [x : Int, z : Int]

C10_LastWriteWins ==
    ticks > 0 =>
        /\ blueCarPosition = GroundPosition(carState)
        /\ AppCarPositions(blueCarPosition)[3]
             = [x |-> carState.position.x, z |-> carState.position.z,
                color |-> "blue"]

\* C10 witness: a second publish replaced a different first one and the
\* panel has drawn it
C10_Witness ==
    /\ ticks = 2
    /\ frame.state.position # InitCarState.position
    /\ blueCarPosition # GroundPosition(frame.state)
    /\ carPositions = AppCarPositions(blueCarPosition)

\* C11: a keydown or keyup of a key outside 'w', 's', 'a', 'd', ' ' leaves
\* the five flags as they were; a keydown of a recognized key whose flag is
\* already true, and a keyup of one whose flag is already false, leave the
\* whole of keys as it was.
C11_KeyEventsIdempotent ==
    event.type # "none" =>
        /\ ~Recognized(event.key) => keys = event.before
        /\ (/\ Recognized(event.key)
            /\ event.type = "keydown"
            /\ event.before[KeyName(event.key)]) => keys = event.before
        /\ (/\ Recognized(event.key)
            /\ event.type = "keyup"
            /\ ~event.before[KeyName(event.key)]) => keys = event.before

\* C11 witness: a repeated keydown of the space bar, found with space and
\* A already held
C11_Witness ==
    /\ event.type = "keydown"
    /\ event.key = " "
    /\ event.before.space
    /\ event.before.a
    /\ keys = event.before

\* C12 (the claim as stated): every frame computes from the carState that
\* the latest setCarState stored; no frame starts from an older captured
\* carState.
C12_NoStaleTick == [][ticks' # ticks => frame'.state = carState]_vars

===========================================================================
